---- MODULE Spec2Model ----
(***************************************************************************)
(* Model of package nullable (src/nullable.go): the generic container      *)
(* Nullable[T] = struct{ sql.Null[T] } with fields V and Valid, its two    *)
(* constructors, its accessors, and its JSON and database/sql protocols.   *)
(*                                                                         *)
(* T is instantiated at three Go types: int, string and *int.  Go values   *)
(* are represented as follows:                                             *)
(*   int     an integer                                                    *)
(*   string  a sequence of one-character strings                           *)
(*   *int    << >> for the nil pointer, <<i>> for a pointer to i           *)
(* []byte values (JSON texts) are sequences of one-character strings.      *)
(***************************************************************************)
EXTENDS Integers, Sequences, FiniteSets, TLC

VARIABLES T, n, pre, op, arg, ret, err, ptr, cell

vars == <<T, n, pre, op, arg, ret, err, ptr, cell>>

(***************************************************************************)
(* Bounds of the value domains.                                            *)
(***************************************************************************)
MaxInt == 1
MaxLen == 1

Types == {"int", "string", "ptr"}

IntVals == (-MaxInt .. MaxInt) \cup {42}

StrChars == {"a", "\""}

SeqsUpTo(S, k) == UNION {[1..m -> S] : m \in 0..k}

StrNull == <<"n", "u", "l", "l">>

StrVals == SeqsUpTo(StrChars, MaxLen) \cup {StrNull, <<"4", "2">>}

PtrVals == {<< >>} \cup {<<i>> : i \in IntVals}

Vals(t) == CASE t = "int" -> IntVals
             [] t = "string" -> StrVals
             [] t = "ptr" -> PtrVals

\* The zero value of T ("var zero T", *new(T)).
Zero(t) == CASE t = "int" -> 0
             [] t = "string" -> << >>
             [] t = "ptr" -> << >>

(***************************************************************************)
(* strconv: decimal formatting and parsing of integers.                    *)
(***************************************************************************)
DigitChars == <<"0", "1", "2", "3", "4", "5", "6", "7", "8", "9">>

IsDigit(c) == \E d \in 1..10 : DigitChars[d] = c

DigitVal(c) == (CHOOSE d \in 1..10 : DigitChars[d] = c) - 1

AllDigits(s) == \A i \in 1..Len(s) : IsDigit(s[i])

RECURSIVE FormatNat(_)
FormatNat(k) == IF k < 10 THEN <<DigitChars[k + 1]>>
                ELSE FormatNat(k \div 10) \o <<DigitChars[(k % 10) + 1]>>

FormatInt(i) == IF i < 0 THEN <<"-">> \o FormatNat(-i) ELSE FormatNat(i)

RECURSIVE ParseDigits(_)
ParseDigits(s) == IF s = << >> THEN 0
                  ELSE ParseDigits(SubSeq(s, 1, Len(s) - 1)) * 10 + DigitVal(s[Len(s)])

\* strconv.ParseInt(s, 10, 64): optional sign, then one or more digits
\* (leading zeros allowed).
ParseInt(s) ==
    LET signed == Len(s) > 0 /\ s[1] \in {"-", "+"}
        body == IF signed THEN Tail(s) ELSE s
    IN IF Len(body) > 0 /\ AllDigits(body)
       THEN [ok |-> TRUE,
             v |-> IF signed /\ s[1] = "-" THEN -ParseDigits(body) ELSE ParseDigits(body)]
       ELSE [ok |-> FALSE, v |-> 0]

(***************************************************************************)
(* encoding/json, for T in Types.                                          *)
(***************************************************************************)
Quote == "\""
Backslash == "\\"
JSONNull == <<"n", "u", "l", "l">>

IsSpace(c) == c \in {" ", "\n", "\t", "\r"}

RECURSIVE TrimLeft(_)
TrimLeft(s) == IF s /= << >> /\ IsSpace(Head(s)) THEN TrimLeft(Tail(s)) ELSE s

RECURSIVE TrimRight(_)
TrimRight(s) == IF s /= << >> /\ IsSpace(s[Len(s)])
                THEN TrimRight(SubSeq(s, 1, Len(s) - 1)) ELSE s

TrimSpace(s) == TrimRight(TrimLeft(s))

\* String encoding: quote and backslash are escaped with a backslash.
RECURSIVE EscapeString(_)
EscapeString(s) ==
    IF s = << >> THEN << >>
    ELSE IF Head(s) \in {Quote, Backslash}
         THEN <<Backslash, Head(s)>> \o EscapeString(Tail(s))
         ELSE <<Head(s)>> \o EscapeString(Tail(s))

\* The text between the quotes of a JSON string literal is well formed.
RECURSIVE WellEscaped(_)
WellEscaped(s) ==
    IF s = << >> THEN TRUE
    ELSE IF Head(s) = Backslash
         THEN Len(s) >= 2 /\ s[2] \in {Quote, Backslash} /\ WellEscaped(SubSeq(s, 3, Len(s)))
         ELSE Head(s) /= Quote /\ WellEscaped(Tail(s))

RECURSIVE Unescape(_)
Unescape(s) ==
    IF s = << >> THEN << >>
    ELSE IF Head(s) = Backslash
         THEN <<s[2]>> \o Unescape(SubSeq(s, 3, Len(s)))
         ELSE <<Head(s)>> \o Unescape(Tail(s))

\* JSON number grammar restricted to integers: -? (0 | [1-9][0-9]*)
IsJSONNumber(tok) ==
    LET body == IF Len(tok) > 0 /\ tok[1] = "-" THEN Tail(tok) ELSE tok
    IN /\ Len(body) > 0
       /\ AllDigits(body)
       /\ (body[1] = "0" => Len(body) = 1)

IsJSONString(tok) ==
    /\ Len(tok) >= 2
    /\ tok[1] = Quote
    /\ tok[Len(tok)] = Quote
    /\ WellEscaped(SubSeq(tok, 2, Len(tok) - 1))

\* The kind of the single JSON value in data, "invalid" when the scanner
\* (checkValid) rejects data.
JSONKind(data) ==
    LET tok == TrimSpace(data)
    IN CASE tok = JSONNull -> "null"
         [] tok \in {<<"t", "r", "u", "e">>, <<"f", "a", "l", "s", "e">>} -> "bool"
         [] IsJSONNumber(tok) -> "number"
         [] IsJSONString(tok) -> "string"
         [] OTHER -> "invalid"

\* json.Marshal(v) for v of type t.
JSONMarshal(t, v) ==
    CASE t = "int" -> [data |-> FormatInt(v), err |-> "nil"]
      [] t = "string" -> [data |-> <<Quote>> \o EscapeString(v) \o <<Quote>>, err |-> "nil"]
      [] t = "ptr" -> [data |-> IF v = << >> THEN JSONNull ELSE FormatInt(v[1]), err |-> "nil"]

\* json.Unmarshal(data, &v) for v of type t: the value left in v and the error.
\* A syntax error is found before v is touched.  Decoding into a nil *int
\* allocates the pointee before the token's type is checked.
JSONUnmarshal(t, data, v) ==
    LET tok == TrimSpace(data)
        kind == JSONKind(data)
        alloc == IF v = << >> THEN <<0>> ELSE v
    IN CASE kind = "invalid" -> [v |-> v, err |-> "SyntaxError"]
         [] kind = "null" -> [v |-> IF t = "ptr" THEN << >> ELSE v, err |-> "nil"]
         [] kind = "bool" ->
              [v |-> IF t = "ptr" THEN alloc ELSE v, err |-> "UnmarshalTypeError"]
         [] kind = "number" ->
              (CASE t = "int" -> [v |-> ParseInt(tok).v, err |-> "nil"]
                 [] t = "string" -> [v |-> v, err |-> "UnmarshalTypeError"]
                 [] t = "ptr" -> [v |-> <<ParseInt(tok).v>>, err |-> "nil"])
         [] kind = "string" ->
              (CASE t = "int" -> [v |-> v, err |-> "UnmarshalTypeError"]
                 [] t = "string" ->
                      [v |-> Unescape(SubSeq(tok, 2, Len(tok) - 1)), err |-> "nil"]
                 [] t = "ptr" -> [v |-> alloc, err |-> "UnmarshalTypeError"])

\* fmt.Sprintf("%v", v) for v of type t; a non-nil pointer prints as its
\* address, addr being the hexadecimal digits of the pointee's address.
Sprintf(t, v, addr) ==
    CASE t = "int" -> FormatInt(v)
      [] t = "string" -> v
      [] t = "ptr" -> IF v = << >> THEN <<"<", "n", "i", "l", ">">> ELSE <<"0", "x">> \o addr

HexAddrs == {<<"c", "0">>, <<"c", "8">>}

(***************************************************************************)
(* database/sql: the values a driver hands to Scan, and convertAssign.     *)
(***************************************************************************)
RawKinds == {"nil", "int64", "string", "bool"}

RawVals(k) == CASE k = "nil" -> {0}
                [] k = "int64" -> IntVals
                [] k = "string" -> StrVals
                [] k = "bool" -> {TRUE, FALSE}

\* asString(src)
AsString(raw) ==
    CASE raw.k = "int64" -> FormatInt(raw.v)
      [] raw.k = "string" -> raw.v
      [] raw.k = "bool" -> IF raw.v THEN <<"t", "r", "u", "e">> ELSE <<"f", "a", "l", "s", "e">>

\* convertAssign(&v, raw) for non-nil raw and v of type t: the value left in
\* v and the error.  A *int destination is given a new pointee before the
\* conversion is attempted.
ConvertAssign(t, v, raw) ==
    LET p == ParseInt(AsString(raw))
    IN CASE t = "string" -> [v |-> AsString(raw), err |-> "nil"]
         [] t = "int" -> IF p.ok THEN [v |-> p.v, err |-> "nil"]
                         ELSE [v |-> v, err |-> "ScanError"]
         [] t = "ptr" -> IF p.ok THEN [v |-> <<p.v>>, err |-> "nil"]
                         ELSE [v |-> <<0>>, err |-> "ScanError"]

\* (*sql.Null[T]).Scan
SqlNullScan(t, c, raw) ==
    IF raw.k = "nil"
    THEN [n |-> [V |-> Zero(t), Valid |-> FALSE], err |-> "nil"]
    ELSE LET r == ConvertAssign(t, c.V, raw)
         IN [n |-> [V |-> r.v, Valid |-> TRUE], err |-> r.err]

(***************************************************************************)
(* package nullable                                                        *)
(***************************************************************************)
NilRef == "nil"
AddrCopy == "&copy.V"
AddrSelf == "&n.V"

NewNullable(v) == [V |-> v, Valid |-> TRUE]

NewNull(t) == [V |-> Zero(t), Valid |-> FALSE]

\* Ptr without the validity test.
PtrAlways(c) == [ref |-> AddrCopy, copy |-> c]

\* Ptr as a pointer-receiver method would behave: a reference to the
\* container's own field.
PtrOfSelf(c) == [ref |-> IF ~c.Valid THEN NilRef ELSE AddrSelf, copy |-> c]

\* Ptr has a value receiver: c is the caller's container copied into the
\* receiver, and the reference returned is to the copy's V.
Ptr(c) == [ref |-> IF ~c.Valid THEN NilRef ELSE AddrCopy, copy |-> c]

\* ValueOr without the validity test.
ValueOrAlways(c, defaultValue) == c.V

ValueOr(c, defaultValue) == IF ~c.Valid THEN defaultValue ELSE c.V

\* MarshalJSON without the validity test.
MarshalJSONAlways(t, c) == JSONMarshal(t, c.V)

MarshalJSON(t, c) ==
    IF ~c.Valid THEN [data |-> <<"n", "u", "l", "l">>, err |-> "nil"]
    ELSE JSONMarshal(t, c.V)

\* UnmarshalJSON that marks the container valid only once the value decoded.
UnmarshalJSONValidLast(t, c, data) ==
    IF data = <<"n", "u", "l", "l">>
    THEN [n |-> [c EXCEPT !.Valid = FALSE], err |-> "nil"]
    ELSE LET r == JSONUnmarshal(t, data, c.V)
         IN [n |-> [V |-> r.v, Valid |-> IF r.err = "nil" THEN TRUE ELSE c.Valid],
             err |-> r.err]

\* UnmarshalJSON that never marks the container valid.
UnmarshalJSONKeepValid(t, c, data) ==
    IF data = <<"n", "u", "l", "l">>
    THEN [n |-> [c EXCEPT !.Valid = FALSE], err |-> "nil"]
    ELSE LET r == JSONUnmarshal(t, data, c.V)
         IN [n |-> [V |-> r.v, Valid |-> c.Valid], err |-> r.err]

UnmarshalJSON(t, c, data) ==
    IF data = <<"n", "u", "l", "l">>
    THEN [n |-> [c EXCEPT !.Valid = FALSE], err |-> "nil"]
    ELSE LET r == JSONUnmarshal(t, data, c.V)
         IN [n |-> [V |-> r.v, Valid |-> TRUE], err |-> r.err]

\* Scan that drops the error of the embedded Scan.
ScanNoError(t, c, raw) == [n |-> SqlNullScan(t, c, raw).n, err |-> "nil"]

Scan(t, c, raw) == SqlNullScan(t, c, raw)

\* Value without the validity test.
ValueAlways(t, c) == [v |-> c.V, err |-> "nil"]

Value(t, c) ==
    IF ~c.Valid THEN [v |-> Zero(t), err |-> "nil"]
    ELSE [v |-> c.V, err |-> "nil"]

\* String without the validity test.
StringAlways(t, c, addr) == Sprintf(t, c.V, addr)

String(t, c, addr) ==
    IF ~c.Valid THEN <<"n", "u", "l", "l">>
    ELSE Sprintf(t, c.V, addr)

\* The value a reference refers to.
Deref(p) == IF p = AddrSelf THEN n.V ELSE cell

(***************************************************************************)
(* Inputs.                                                                 *)
(***************************************************************************)
\* Texts that are not the encoding of a value: empty, padded, truncated,
\* of another JSON type, or not JSON.
OtherData == {<< >>, <<" ", "n", "u", "l", "l">>, <<"t", "r", "u", "e">>,
              <<Quote, "a">>, <<"0", "1">>, <<"-", "0">>, <<"4", "2", " ">>}

DataInputsOf ==
    [t \in Types |-> {JSONMarshal(t, v).data : v \in Vals(t)}
                     \cup {<<"n", "u", "l", "l">>, <<"4", "2">>, <<Quote, "a", Quote>>}
                     \cup OtherData]

DataInputs(t) == DataInputsOf[t]

(***************************************************************************)
(* The state machine: one container n of type Nullable[T], the last        *)
(* operation applied to it (op, arg, ret, err), the container before that  *)
(* operation (pre), the reference last returned by Ptr (ptr) and the       *)
(* receiver copy it refers to (cell).                                      *)
(***************************************************************************)
Init ==
    /\ T \in Types
    /\ \/ /\ n = NewNull(T)
          /\ op = "NewNull"
          /\ arg = Zero(T)
       \/ \E v \in Vals(T) :
          /\ n = NewNullable(v)
          /\ op = "NewNullable"
          /\ arg = v
    /\ pre = n
    /\ ret = n
    /\ err = "nil"
    /\ ptr = NilRef
    /\ cell = Zero(T)

DoNewNullable ==
    \E v \in Vals(T) :
        /\ n' = NewNullable(v)
        /\ pre' = n
        /\ op' = "NewNullable"
        /\ arg' = v
        /\ ret' = n'
        /\ err' = "nil"
        /\ UNCHANGED <<T, ptr, cell>>

DoNewNull ==
    /\ n' = NewNull(T)
    /\ pre' = n
    /\ op' = "NewNull"
    /\ arg' = Zero(T)
    /\ ret' = n'
    /\ err' = "nil"
    /\ UNCHANGED <<T, ptr, cell>>

DoPtr ==
    LET r == Ptr(n)
    IN /\ ptr' = r.ref
       /\ cell' = IF r.ref = NilRef THEN Zero(T) ELSE r.copy.V
       /\ pre' = n
       /\ op' = "Ptr"
       /\ arg' = Zero(T)
       /\ ret' = r.ref
       /\ err' = "nil"
       /\ UNCHANGED <<T, n>>

\* The caller assigns through the reference Ptr returned: *p = w.
DoWritePtr ==
    \E w \in Vals(T) :
        /\ ptr /= NilRef
        /\ IF ptr = AddrSelf
           THEN n' = [n EXCEPT !.V = w] /\ cell' = cell
           ELSE n' = n /\ cell' = w
        /\ pre' = n
        /\ op' = "WritePtr"
        /\ arg' = w
        /\ ret' = w
        /\ err' = "nil"
        /\ UNCHANGED <<T, ptr>>

DoValueOr ==
    \E d \in Vals(T) :
        /\ pre' = n
        /\ op' = "ValueOr"
        /\ arg' = d
        /\ ret' = ValueOr(n, d)
        /\ err' = "nil"
        /\ UNCHANGED <<T, n, ptr, cell>>

DoMarshalJSON ==
    LET r == MarshalJSON(T, n)
    IN /\ pre' = n
       /\ op' = "MarshalJSON"
       /\ arg' = Zero(T)
       /\ ret' = r.data
       /\ err' = r.err
       /\ UNCHANGED <<T, n, ptr, cell>>

DoUnmarshalJSON ==
    \E data \in DataInputs(T) :
        LET r == UnmarshalJSON(T, n, data)
        IN /\ n' = r.n
           /\ pre' = n
           /\ op' = "UnmarshalJSON"
           /\ arg' = data
           /\ ret' = r.n
           /\ err' = r.err
           /\ UNCHANGED <<T, ptr, cell>>

DoScan ==
    \E k \in RawKinds : \E v \in RawVals(k) :
        LET raw == [k |-> k, v |-> v]
            r == Scan(T, n, raw)
        IN /\ n' = r.n
           /\ pre' = n
           /\ op' = "Scan"
           /\ arg' = raw
           /\ ret' = r.n
           /\ err' = r.err
           /\ UNCHANGED <<T, ptr, cell>>

DoValue ==
    LET r == Value(T, n)
    IN /\ pre' = n
       /\ op' = "Value"
       /\ arg' = Zero(T)
       /\ ret' = r.v
       /\ err' = r.err
       /\ UNCHANGED <<T, n, ptr, cell>>

DoString ==
    \E addr \in HexAddrs :
        /\ pre' = n
        /\ op' = "String"
        /\ arg' = addr
        /\ ret' = String(T, n, addr)
        /\ err' = "nil"
        /\ UNCHANGED <<T, n, ptr, cell>>

\* TestJSONRoundTrip: encode a container, decode the text into a fresh one.
DoJSONRoundTrip ==
    \E orig \in {NewNull(T)} \cup {NewNullable(v) : v \in Vals(T)} :
        LET m == MarshalJSON(T, orig)
            u == UnmarshalJSON(T, [V |-> Zero(T), Valid |-> FALSE], m.data)
        IN /\ pre' = n
           /\ op' = "JSONRoundTrip"
           /\ arg' = orig
           /\ ret' = [data |-> m.data, merr |-> m.err, decoded |-> u.n, err |-> u.err]
           /\ err' = u.err
           /\ UNCHANGED <<T, n, ptr, cell>>

Next ==
    \/ DoNewNullable
    \/ DoNewNull
    \/ DoPtr
    \/ DoWritePtr
    \/ DoValueOr
    \/ DoMarshalJSON
    \/ DoUnmarshalJSON
    \/ DoScan
    \/ DoValue
    \/ DoString
    \/ DoJSONRoundTrip

Spec == Init /\ [][Next]_vars

(***************************************************************************)
(* Properties.                                                             *)
(***************************************************************************)

\* C1: in every reachable state, a container that is not valid holds the
\* zero value of T.
C1_InvalidHoldsZero == ~n.Valid => n.V = Zero(T)

\* C2 as stated: encoding any container and decoding the text into a fresh
\* container gives back a container equal to the original, field by field.
C2_RoundTripAll ==
    op = "JSONRoundTrip" => (ret.err = "nil" /\ ret.decoded = arg)

\* C2 amended: the round trip gives back the original container unless the
\* original is valid and its value encodes as the token null; such a
\* container, like the empty one, decodes to the empty container.
C2_RoundTrip ==
    op = "JSONRoundTrip" =>
        /\ ret.merr = "nil"
        /\ ret.err = "nil"
        /\ IF arg.Valid /\ ret.data /= <<"n", "u", "l", "l">>
           THEN ret.decoded = arg
           ELSE ret.decoded = NewNull(T)

C2_Witness ==
    /\ op = "JSONRoundTrip"
    /\ T = "string"
    /\ arg = NewNullable(<<Quote>>)
    /\ ret.data = <<Quote, Backslash, Quote, Quote>>
    /\ ret.decoded = arg

\* C3: when the data is not the literal null and T's decoder rejects it,
\* UnmarshalJSON returns the decoder's error and the container is valid
\* afterwards, whatever it was before.
C3_DecodeError ==
    (op = "UnmarshalJSON" /\ arg /= <<"n", "u", "l", "l">>
        /\ JSONUnmarshal(T, arg, pre.V).err /= "nil") =>
        /\ err = JSONUnmarshal(T, arg, pre.V).err
        /\ err \in {"SyntaxError", "UnmarshalTypeError"}
        /\ n.Valid

C3_Witness ==
    /\ op = "UnmarshalJSON"
    /\ ~pre.Valid
    /\ err = "UnmarshalTypeError"
    /\ n.Valid

\* C4 as stated: String returns "null" exactly when the container is not
\* valid.
C4_NullIffInvalid == op = "String" => (ret = StrNull <=> ~n.Valid)

\* C4 amended: String returns "null" for a container that is not valid and
\* the %v rendering of the value for a valid one; a valid container renders
\* as "null" when its value does (the string "null"), and only then.
C4_String ==
    op = "String" =>
        /\ ~n.Valid => ret = StrNull
        /\ n.Valid => ret = Sprintf(T, n.V, arg)
        /\ (n.Valid /\ ret = StrNull) <=> (n.Valid /\ T = "string" /\ n.V = StrNull)
        /\ (n.Valid /\ T = "int" /\ n.V = 42) => ret = <<"4", "2">>
        /\ n = pre

C4_Witness ==
    /\ op = "String"
    /\ n.Valid
    /\ ret = StrNull

\* C5: ValueOr(d) returns the value of a valid container and d for one that
\* is not valid, and leaves the container as it was.
C5_ValueOr ==
    op = "ValueOr" =>
        /\ pre.Valid => ret = pre.V
        /\ ~pre.Valid => ret = arg
        /\ n = pre

C5_Witness ==
    /\ op = "ValueOr"
    /\ ~n.Valid
    /\ n.V /= arg
    /\ ret = arg

\* C6: Ptr returns nil if and only if the container is not valid, and on a
\* valid container a reference to a value equal to the container's.
C6_Ptr ==
    op = "Ptr" =>
        /\ ret = NilRef <=> ~pre.Valid
        /\ pre.Valid => Deref(ret) = pre.V
        /\ n = pre

C6_Witness ==
    /\ op = "Ptr"
    /\ ret /= NilRef
    /\ n.Valid
    /\ Deref(ret) = n.V
    /\ n.V /= Zero(T)

\* C7: a successful UnmarshalJSON sets validity from the data alone: the
\* literal null leaves the container not valid; any other text T's decoder
\* accepts leaves it valid holding the decoded value, and a number or string
\* token decodes to the same container whatever the container was before.
C7_DecodeSuccess ==
    op = "UnmarshalJSON" =>
        /\ arg = <<"n", "u", "l", "l">> => (err = "nil" /\ ~n.Valid)
        /\ (arg /= <<"n", "u", "l", "l">> /\ JSONUnmarshal(T, arg, pre.V).err = "nil") =>
               /\ err = "nil"
               /\ n.Valid
               /\ n.V = JSONUnmarshal(T, arg, pre.V).v
               /\ JSONKind(arg) \in {"number", "string"} =>
                      n.V = JSONUnmarshal(T, arg, Zero(T)).v
        /\ (T = "int" /\ arg = <<"4", "2">>) => (err = "nil" /\ n = NewNullable(42))
        /\ (T = "string" /\ arg = <<Quote, "a", Quote>>) =>
               (err = "nil" /\ n = NewNullable(<<"a">>))

C7_Witness ==
    /\ op = "UnmarshalJSON"
    /\ T = "int"
    /\ arg = <<"4", "2">>
    /\ ~pre.Valid
    /\ err = "nil"
    /\ n = NewNullable(42)

\* C8: Scan has three outcomes, decided by the raw value: nil gives no error
\* and the empty container; a raw value convertible to T gives no error and
\* a valid container holding the converted value; any other raw value gives
\* an error.
C8_Scan ==
    op = "Scan" =>
        /\ arg.k = "nil" => (err = "nil" /\ n = NewNull(T))
        /\ (arg.k /= "nil" /\ ConvertAssign(T, Zero(T), arg).err = "nil") =>
               /\ err = "nil"
               /\ n = NewNullable(ConvertAssign(T, Zero(T), arg).v)
        /\ (arg.k /= "nil" /\ ConvertAssign(T, Zero(T), arg).err /= "nil") =>
               err = "ScanError"
        /\ (T = "int" /\ arg.k = "int64") => (err = "nil" /\ n = NewNullable(arg.v))
        /\ (T = "string" /\ arg.k = "string") => (err = "nil" /\ n = NewNullable(arg.v))
        /\ (T \in {"int", "ptr"} /\ arg.k = "bool") => err = "ScanError"

C8_Witness ==
    /\ op = "Scan"
    /\ arg.k = "bool"
    /\ pre.Valid
    /\ err = "ScanError"

\* C9: Value never returns an error; it returns the zero value of T for a
\* container that is not valid, which is what it returns for a valid
\* container holding the zero value, and the value of a valid container; it
\* leaves the container as it was.
C9_Value ==
    op = "Value" =>
        /\ err = "nil"
        /\ ~pre.Valid => ret = Zero(T)
        /\ ~pre.Valid => [v |-> ret, err |-> err] = Value(T, NewNullable(Zero(T)))
        /\ pre.Valid => ret = pre.V
        /\ n = pre

C9_Witness ==
    /\ op = "Value"
    /\ ~n.Valid
    /\ n.V /= Zero(T)
    /\ ret = Zero(T)
    /\ err = "nil"

====
